---------------------------- MODULE Spec2Model ----------------------------
(* A model of harvest.py, the script that turns the IVOA document          *)
(* repository into ADS tagged records.                                      *)
(*                                                                          *)
(* Python strings are modelled as sequences of one-character strings, so    *)
(* that splitting, stripping, joining, comparing and formatting are         *)
(* computed character by character.  URLs and dictionary keys are only      *)
(* ever compared for equality or looked up and are kept as atomic strings   *)
(* (dictionary keys are spelled out where they are sorted).                 *)
(*                                                                          *)
(* An evaluation that may raise returns Ok(v) or Raise(exc, arg).           *)
EXTENDS Integers, Sequences, FiniteSets, TLC

VARIABLES
    pc,        \* position of the run that is modelled
    literal,   \* SpecParse: the argument of parse_authors
    parsed,    \* SpecParse: what parse_authors(literal) evaluated to
    given,     \* SpecDoc: the mapping handed to Document()
    doc,       \* SpecDoc: what Document(given) evaluated to
    again,     \* SpecDoc: what a second _perform_editor_hack evaluated to
    bib,       \* SpecDoc: what the bibcode property evaluated to
    todo,      \* Spec: the landing pages behind the URLs of the index, in order
    next,      \* Spec: the position in todo of the next URL of the loop
    docs,      \* Spec: from_repo_URL's docs, then the collection's self.docs
    log,       \* Spec: the URLs reported on sys.stderr by from_repo_URL
    exc,       \* Spec: the exception that ended the run, if any
    single,    \* Spec: main was called with --single-doc
    token,     \* Spec: main was called with --ads-token
    mapfile,   \* Spec: what the run did to bibcode_mapping.json
    limit_to,  \* Spec: main's limit_to
    pos,       \* Spec: the position in the collection of main's output loop
    stdout,    \* Spec: the records written to sys.stdout
    report,    \* Spec: what the entry point wrote to sys.stderr
    field,     \* SpecClean: the argument of clean_field
    cleaned,   \* SpecClean: what clean_field(field) evaluated to
    soup,      \* SpecAbstract: the siblings after the Abstract heading
    abstract   \* SpecAbstract: what get_abstract_text(soup) evaluated to

vars ==
    <<pc, literal, parsed, given, doc, again, bib, todo, next, docs, log, exc,
      single, token, mapfile, limit_to, pos, stdout, report,
      field, cleaned, soup, abstract>>

parseVars == <<literal, parsed>>

runVars == <<todo, next, docs, log, exc>>

docVars == <<given, doc, again, bib>>

mainVars == <<single, token, mapfile, limit_to, pos, stdout, report>>

textVars == <<field, cleaned, soup, abstract>>

--------------------------------------------------------------------------
(* Results of evaluations that may raise *)

Ok(v) == [ok |-> TRUE, val |-> v]

Raise(e, a) == [ok |-> FALSE, exc |-> e, arg |-> a]

None == [ok |-> TRUE, val |-> "None"]

--------------------------------------------------------------------------
(* Characters and strings *)

\* the printable ASCII characters in code point order, from 32 (space);
\* the grave accent, 96, is not written in any string of the model
Printable == <<" ", "!", "\"", "#", "$", "%", "&", "'", "(", ")", "*", "+", ",", "-", ".", "/", "0", "1", "2", "3", "4", "5", "6", "7", "8", "9", ":", ";", "<", "=", ">", "?", "@", "A", "B", "C", "D", "E", "F", "G", "H", "I", "J", "K", "L", "M", "N", "O", "P", "Q", "R", "S", "T", "U", "V", "W", "X", "Y", "Z", "[", "\\", "]", "^", "_", "(96)", "a", "b", "c", "d", "e", "f", "g", "h", "i", "j", "k", "l", "m", "n", "o", "p", "q", "r", "s", "t", "u", "v", "w", "x", "y", "z", "{", "|", "}", "~">>

\* ord(c): the code point of a character
ord(c) == IF c = "\n" THEN 10
          ELSE 31 + (CHOOSE k \in 1..Len(Printable) : Printable[k] = c)

\* the characters str.strip() removes and the regular expression \s matches
Whitespace == {" ", "\n", "\t", "\r"}

\* the regular expression class [A-Z]
IsUpper(c) == ord(c) >= 65 /\ ord(c) <= 90

Contains(s, c) == \E k \in 1..Len(s) : s[k] = c

\* t in s, for strings
RECURSIVE IsSubstring(_, _)
IsSubstring(t, s) ==
    IF Len(t) > Len(s) THEN FALSE
    ELSE IF SubSeq(s, 1, Len(t)) = t THEN TRUE
    ELSE IsSubstring(t, Tail(s))

\* s < t, for strings: lexicographic by code point
RECURSIVE StrLess(_, _)
StrLess(s, t) ==
    IF t = <<>> THEN FALSE
    ELSE IF s = <<>> THEN TRUE
    ELSE IF Head(s) = Head(t) THEN StrLess(Tail(s), Tail(t))
    ELSE ord(Head(s)) < ord(Head(t))

\* s.lstrip(), s.rstrip(), s.strip()
RECURSIVE LStrip(_)
LStrip(s) == IF s # <<>> /\ Head(s) \in Whitespace THEN LStrip(Tail(s)) ELSE s

RECURSIVE RStrip(_)
RStrip(s) == IF s # <<>> /\ s[Len(s)] \in Whitespace
             THEN RStrip(SubSeq(s, 1, Len(s) - 1)) ELSE s

Strip(s) == RStrip(LStrip(s))

\* s.split(c) for a one-character separator: always at least one token
RECURSIVE SplitFrom(_, _, _)
SplitFrom(s, c, cur) ==
    IF s = <<>> THEN <<cur>>
    ELSE IF Head(s) = c THEN <<cur>> \o SplitFrom(Tail(s), c, <<>>)
    ELSE SplitFrom(Tail(s), c, Append(cur, Head(s)))

Split(s, c) == SplitFrom(s, c, <<>>)

\* s.split(): the maximal runs of non-whitespace characters
RECURSIVE WordsFrom(_, _)
WordsFrom(s, cur) ==
    IF s = <<>> THEN (IF cur = <<>> THEN <<>> ELSE <<cur>>)
    ELSE IF Head(s) \in Whitespace
         THEN (IF cur = <<>> THEN <<>> ELSE <<cur>>) \o WordsFrom(Tail(s), <<>>)
    ELSE WordsFrom(Tail(s), Append(cur, Head(s)))

Words(s) == WordsFrom(s, <<>>)

\* sep.join(parts)
RECURSIVE Join(_, _)
Join(sep, parts) ==
    IF parts = <<>> THEN <<>>
    ELSE IF Len(parts) = 1 THEN parts[1]
    ELSE parts[1] \o sep \o Join(sep, Tail(parts))

\* [f(x) for x in xs] with f = strip
StripAll(xs) == [k \in 1..Len(xs) |-> Strip(xs[k])]

--------------------------------------------------------------------------
(* parse_authors *)

\* re.search(r"[A-Z]\.$", literal): $ matches at the very end and also just
\* before a newline that ends the string
EndsWithInitial(s) ==
    LET n == Len(s) IN
    \/ n >= 2 /\ s[n] = "." /\ IsUpper(s[n - 1])
    \/ n >= 3 /\ s[n] = "\n" /\ s[n - 1] = "." /\ IsUpper(s[n - 2])

\* the separator parse_authors splits on
AuthorSeparator(s) ==
    IF EndsWithInitial(s) \/ Contains(s, ";") THEN ";" ELSE ","

\* the first part without a blank, if any (the for loop of parse_authors)
RECURSIVE FirstUnlikely(_)
FirstUnlikely(parts) ==
    IF parts = <<>> THEN None
    ELSE IF ~Contains(Head(parts), " ") THEN Ok(Head(parts))
    ELSE FirstUnlikely(Tail(parts))

\* parse_authors with a plausible slip: the trailing initial is not looked at
parse_authors_no_initial(s) ==
    LET res == StripAll(Split(s, IF Contains(s, ";") THEN ";" ELSE ","))
        bad == FirstUnlikely(res)
    IN  IF bad # None THEN Raise("ValueError", bad.val) ELSE Ok(res)

parse_authors(s) ==
    LET res == StripAll(Split(s, AuthorSeparator(s)))
        bad == FirstUnlikely(res)
    IN  IF bad # None THEN Raise("ValueError", bad.val) ELSE Ok(res)

--------------------------------------------------------------------------
(* Formatting with the % operator *)

Digit(n) == Printable[17 + n]

\* "%d" % n and "%s" % n for an integer n >= 0
RECURSIVE Decimal(_)
Decimal(n) == IF n < 10 THEN <<Digit(n)>>
              ELSE Append(Decimal(n \div 10), Digit(n % 10))

RECURSIVE ZeroFill(_, _)
ZeroFill(s, width) == IF Len(s) >= width THEN s ELSE ZeroFill(<<"0">> \o s, width)

\* "%0<width>d" % n for an integer n >= 0
ZeroPadded(n, width) == ZeroFill(Decimal(n), width)

--------------------------------------------------------------------------
(* dict *)

\* d.get(k, default)
Get(d, k, default) == IF k \in DOMAIN d THEN d[k] ELSE default

\* d[k] = v
Put(d, k, v) == (k :> v) @@ d

--------------------------------------------------------------------------
(* Document *)

BIBCODE_QUALIFIERS ==
    ( "http://www.ivoa.net/documents/cover/ConeSearch-20080222.html" :> "Q"
   @@ "http://www.ivoa.net/documents/VOSpace/20091007/" :> "Q"
   @@ "http://www.ivoa.net/documents/SLAP/20101209/" :> "Q"
   @@ "http://www.ivoa.net/documents/Coords/20221004/index.html" :> "Q" )

mandatory_keys ==
    {"url", "authors", "editors", "date", "abstract", "title", "journal"}

\* the spelling of a key, as sorted() compares it
KeyText(k) ==
    CASE k = "abstract" -> <<"a", "b", "s", "t", "r", "a", "c", "t">>
      [] k = "authors"  -> <<"a", "u", "t", "h", "o", "r", "s">>
      [] k = "date"     -> <<"d", "a", "t", "e">>
      [] k = "editors"  -> <<"e", "d", "i", "t", "o", "r", "s">>
      [] k = "journal"  -> <<"j", "o", "u", "r", "n", "a", "l">>
      [] k = "title"    -> <<"t", "i", "t", "l", "e">>
      [] k = "url"      -> <<"u", "r", "l">>

\* sorted(keys)
RECURSIVE SortedKeys(_)
SortedKeys(keys) ==
    IF keys = {} THEN <<>>
    ELSE LET least == CHOOSE k \in keys :
                 \A j \in keys \ {k} : StrLess(KeyText(k), KeyText(j))
         IN  <<least>> \o SortedKeys(keys \ {least})

\* Document.validate with a plausible slip: the missing keys are not sorted
\* (they come out in the order the set happens to have, here the reverse)
Document_validate_unsorted(d) ==
    LET missing_keys == mandatory_keys \ DOMAIN d
        keys == SortedKeys(missing_keys)
    IN  IF missing_keys # {}
        THEN Raise("ValidationError",
                   [origin |-> Get(d, "url", "<unknown origin>"),
                    missing |-> [k \in 1..Len(keys) |-> keys[Len(keys) + 1 - k]]])
        ELSE Ok(d)

\* Document.validate; the message "Document at %s: Missing key(s) %s" is kept
\* as its two arguments
Document_validate(d) ==
    LET missing_keys == mandatory_keys \ DOMAIN d
    IN  IF missing_keys # {}
        THEN Raise("ValidationError",
                   [origin |-> Get(d, "url", "<unknown origin>"),
                    missing |-> SortedKeys(missing_keys)])
        ELSE Ok(d)

spec == <<"s", "p", "e", "c">>

rept == <<"r", "e", "p", "t">>

\* Document._infer_type
infer_type(d) ==
    IF \/ IsSubstring(<<"R", "e", "c", "o", "m", "m", "e", "n", "d", "a", "t", "i", "o", "n">>, d["journal"])
       \/ IsSubstring(<<"E", "n", "d", "o", "r", "s", "e", "d", " ", "N", "o", "t", "e">>, d["journal"])
    THEN Put(d, "type", spec)
    ELSE Put(d, "type", rept)

\* [item for item in auths if item not in eds]
NonEditors(auths, eds) ==
    SelectSeq(auths, LAMBDA item : \A k \in 1..Len(eds) : eds[k] # item)

\* the unparsing at the end of Document._perform_editor_hack
Unparse(auths) ==
    IF Contains(auths[1], ",")
    THEN Join(<<";", " ">>, auths)
    ELSE Join(<<",", " ">>, auths)

\* Document._perform_editor_hack
perform_editor_hack(d) ==
    IF Strip(d["editors"]) = <<>> THEN Ok(d)
    ELSE LET eds == parse_authors(d["editors"])
             auths == parse_authors(d["authors"])
         IN  IF ~eds.ok THEN eds
             ELSE IF ~auths.ok THEN auths
             ELSE LET non_editors == NonEditors(auths.val, eds.val)
                      reordered == IF non_editors # <<>>
                                   THEN eds.val \o non_editors
                                   ELSE auths.val
                  IN  Ok(Put(d, "authors", Unparse(reordered)))

\* Document.__init__
Document(vals) ==
    LET d == Put(vals, "source", <<"I", "V", "O", "A">>)
        validated == Document_validate(d)
        hacked == perform_editor_hack(d)
    IN  IF ~validated.ok THEN validated
        ELSE IF ~hacked.ok THEN hacked
        ELSE Ok(infer_type(hacked.val))

exceptional_surnames ==
    {<<"P", "r", "e", "i", "t", "e", " ", "M", "a", "r", "t", "i", "n", "e", "z">>}

\* Document.get_first_author_surname
get_first_author_surname(d) ==
    LET authors == parse_authors(d["authors"])
    IN  IF ~authors.ok THEN authors
        ELSE LET first_author == authors.val[1]
                 matching == {e \in exceptional_surnames : IsSubstring(e, first_author)}
                 words == Words(first_author)
             IN  IF Contains(first_author, ",") THEN Ok(Split(first_author, ",")[1])
                 ELSE IF matching # {} THEN Ok(CHOOSE e \in matching : TRUE)
                 ELSE IF words = <<>> THEN Raise("IndexError", first_author)
                 ELSE Ok(words[Len(words)])

\* Document.bibcode
bibcode(d) ==
    LET year == d["date"][1]
        month == d["date"][2]
        day == d["date"][3]
        surname == get_first_author_surname(d)
    IN  IF ~surname.ok THEN surname
        ELSE IF surname.val = <<>> THEN Raise("IndexError", surname.val)
        ELSE Ok(Decimal(year) \o <<"i", "v", "o", "a", ".">> \o d["type"]
                \o <<Get(BIBCODE_QUALIFIERS, d["url"], ".")>>
                \o ZeroPadded(month, 2) \o ZeroPadded(day, 2)
                \o <<surname.val[1]>>)

--------------------------------------------------------------------------
(* DocumentCollection *)

\* the key of DocumentCollection._sort_recs:
\* rec["date"]+(rec.get_first_author_surname(), rec["title"])
SortKey(rec) ==
    [date |-> rec["date"], surname |-> get_first_author_surname(rec).val,
     title |-> rec["title"]]

\* a < b for two keys: tuples compare item by item
KeyLess(a, b) ==
    LET differing == {k \in 1..3 : a.date[k] # b.date[k]}
    IN  IF differing # {}
        THEN LET k == CHOOSE x \in differing : \A y \in differing : x <= y
             IN  a.date[k] < b.date[k]
        ELSE IF a.surname # b.surname THEN StrLess(a.surname, b.surname)
        ELSE StrLess(a.title, b.title)

\* rec put into an already sorted list before everything that is not less
RECURSIVE InsertSorted_before_equals(_, _)
InsertSorted_before_equals(rec, sorted) ==
    IF sorted = <<>> THEN <<rec>>
    ELSE IF ~KeyLess(SortKey(Head(sorted)), SortKey(rec))
         THEN <<rec>> \o sorted
         ELSE <<Head(sorted)>> \o InsertSorted_before_equals(rec, Tail(sorted))

\* rec put into an already sorted list behind everything that is not greater
RECURSIVE InsertSorted(_, _)
InsertSorted(rec, sorted) ==
    IF sorted = <<>> THEN <<rec>>
    ELSE IF KeyLess(SortKey(rec), SortKey(Head(sorted)))
         THEN <<rec>> \o sorted
         ELSE <<Head(sorted)>> \o InsertSorted(rec, Tail(sorted))

\* list.sort(key=...): a stable sort
RECURSIVE StableSort(_)
StableSort(recs) ==
    IF recs = <<>> THEN <<>>
    ELSE InsertSorted(recs[Len(recs)], StableSort(SubSeq(recs, 1, Len(recs) - 1)))

\* DocumentCollection._sort_recs: the keys are computed first, in list
\* order, and the first one that raises ends the sort with the list as it was
sort_recs(recs) ==
    LET failing == {k \in 1..Len(recs) : ~get_first_author_surname(recs[k]).ok}
    IN  IF failing # {}
        THEN get_first_author_surname(
                 recs[CHOOSE k \in failing : \A j \in failing : k <= j])
        ELSE Ok(StableSort(recs))

\* DocumentCollection._make_ivoadoc_id
make_ivoadoc_id(rec, index) ==
    <<"i", "v", "o", "a", ":">>
    \o (IF rec["type"] = spec THEN <<"r">> ELSE <<"n">>)
    \o <<".">> \o ZeroPadded(rec["date"][1], 4)
    \o <<".">> \o ZeroPadded(rec["date"][2], 2)
    \o <<".">> \o ZeroPadded(index, 2)

\* DocumentCollection._get_month_partition: the (year, month) keys in the
\* order in which the dictionary got them
RECURSIVE MonthKeys(_)
MonthKeys(recs) ==
    IF recs = <<>> THEN <<>>
    ELSE LET before == MonthKeys(SubSeq(recs, 1, Len(recs) - 1))
             key == <<recs[Len(recs)]["date"][1], recs[Len(recs)]["date"][2]>>
         IN  IF \E k \in 1..Len(before) : before[k] = key THEN before
             ELSE Append(before, key)

\* enumerate(d for d in self.docs if d["type"]==type): the index of recs[k]
IndexInType(recs, k) ==
    Cardinality({j \in 1..(k - 1) : recs[j]["type"] = recs[k]["type"]})

\* the index of recs[k] among the documents of its type and its month
IndexInMonth(recs, k) ==
    Cardinality({j \in 1..(k - 1) :
        /\ recs[j]["type"] = recs[k]["type"]
        /\ recs[j]["date"][1] = recs[k]["date"][1]
        /\ recs[j]["date"][2] = recs[k]["date"][2]})

\* the body of the loop of _create_identifiers: both for loops over self.docs
IdentifierPass(recs) ==
    [k \in 1..Len(recs) |->
        IF recs[k]["type"] \in {spec, rept}
        THEN Put(recs[k], "ivoadoc-id", make_ivoadoc_id(recs[k], IndexInType(recs, k)))
        ELSE recs[k]]

RECURSIVE IdentifierPasses(_, _)
IdentifierPasses(recs, months) ==
    IF months = <<>> THEN recs
    ELSE IdentifierPasses(IdentifierPass(recs), Tail(months))

\* _create_identifiers with the count restarted in every month
create_identifiers_per_month(recs) ==
    [k \in 1..Len(recs) |->
        Put(recs[k], "ivoadoc-id", make_ivoadoc_id(recs[k], IndexInMonth(recs, k)))]

\* DocumentCollection._create_identifiers: one pass per (year, month)
create_identifiers(recs) == IdentifierPasses(recs, MonthKeys(recs))

\* [doc.bibcode for doc in self]
Bibcodes(recs) == [k \in 1..Len(recs) |-> bibcode(recs[k])]

\* the positions of the documents whose bibcode is codes[k], in order
SameBibcode(codes, k) ==
    SelectSeq([j \in 1..Len(codes) |-> j], LAMBDA j : codes[j] = codes[k])

\* the positions at which docs_per_bibcode gets a new key
FirstOfBibcode(codes) ==
    SelectSeq([k \in 1..Len(codes) |-> k],
              LAMBDA k : \A j \in 1..(k - 1) : codes[j] # codes[k])

\* the values of docs_per_bibcode of DocumentCollection.validate, as lists
\* of URLs, in the order in which the dictionary got its keys
ClashGroups(recs, codes) ==
    [g \in 1..Len(FirstOfBibcode(codes)) |->
        [m \in 1..Len(SameBibcode(codes, FirstOfBibcode(codes)[g])) |->
            recs[SameBibcode(codes, FirstOfBibcode(codes)[g])[m]]["url"]]]

\* DocumentCollection.validate; the message is kept as the lists of URLs it
\* joins with " and " and " AND ALSO\n"
DocumentCollection_validate(recs) ==
    LET codes == Bibcodes(recs)
        failing == {k \in 1..Len(recs) : ~codes[k].ok}
    IN  IF failing # {}
        THEN codes[CHOOSE k \in failing : \A j \in failing : k <= j]
        ELSE LET dupes == SelectSeq(ClashGroups(recs, codes),
                                    LAMBDA urls : Len(urls) > 1)
             IN  IF dupes # <<>>
                 THEN Raise("ValidationError", [clashing |-> dupes])
                 ELSE Ok(recs)

--------------------------------------------------------------------------
(* Bounds and inputs *)

\* longest literal handed to parse_authors in SpecParse
MaxLen == 5

\* the characters the literals of SpecParse are made of
Alphabet == {"A", "b", " ", ",", ";", ".", "\n"}

RECURSIVE StringsUpTo(_)
StringsUpTo(n) ==
    IF n = 0 THEN {<<>>}
    ELSE LET shorter == StringsUpTo(n - 1)
         IN  shorter \cup {Append(s, c) : s \in {t \in shorter : Len(t) = n - 1},
                                           c \in Alphabet}

--------------------------------------------------------------------------
(* Documents handed to Document() in SpecDoc *)

\* most names in an editors or authors literal of LiteralDocs
MaxNames == 2

\* two names "First Last", two names "Last, F." and a bare surname
Names ==
    { <<"A", " ", "B">>, <<"C", " ", "D">>,
      <<"E", ",", " ", "F", ".">>, <<"G", ",", " ", "H", ".">>,
      <<"X">> }

RECURSIVE NameLists(_)
NameLists(n) ==
    IF n = 0 THEN {<<>>}
    ELSE LET shorter == NameLists(n - 1)
         IN  shorter \cup {Append(l, x) : l \in {t \in shorter : Len(t) = n - 1},
                                           x \in Names}

\* the empty literal, a blank one, and up to MaxNames names separated by
\* ", " or by "; "
Literals ==
    {<<>>, <<" ">>} \cup
    {Join(sep, l) : l \in NameLists(MaxNames) \ {<<>>},
                    sep \in {<<",", " ">>, <<";", " ">>}}

IVOA_Recommendation ==
    <<"I", "V", "O", "A", " ", "R", "e", "c", "o", "m", "m", "e", "n", "d", "a", "t", "i", "o", "n">>

IVOA_Note == <<"I", "V", "O", "A", " ", "N", "o", "t", "e">>

\* TEST_DATA of _test (r2's first author without the accent)
TEST_DATA ==
    [ r1 |-> [url |-> "http://foo/bar",
              title |-> <<"T", "e", "s", "t", " ", "d", "o", "c">>,
              authors |-> <<"F", "r", "e", "d", " ", "G", "n", "u", " ", "T", "e", "s", "t", ",", " ", "W", "a", "n", "g", " ", "C", "h", "u">>,
              editors |-> <<"G", "r", "e", "g", " ", "J", "u">>,
              date |-> <<2014, 3, 7>>, abstract |-> "N/A", pdf |-> "uh",
              journal |-> IVOA_Recommendation, arXiv_id |-> "a-p/1"],
      r2 |-> [url |-> "http://foo/baz",
              title |-> <<"M", "o", "r", "e", " ", "T", "e", "s", "t", "i", "n", "g">>,
              authors |-> <<"R", "e", "n", "e", " ", "D", "e", "s", "c", "a", "r", "t", "e", "s">>,
              editors |-> <<"J", ".", "C", ".", " ", "M", "a", "x", "w", "e", "l", "l">>,
              date |-> <<2014, 3, 7>>, abstract |-> "N/A",
              journal |-> IVOA_Recommendation, arXiv_id |-> "a-p/2"],
      r3 |-> [url |-> "http://foo/quux",
              title |-> <<"S", "t", "i", "l", "l", " ", "m", "o", "r", "e">>,
              authors |-> <<"L", "e", "o", "n", "h", "a", "r", "d", " ", "E", "u", "l", "e", "r", ",", " ", "G", "e", "o", "r", "g", " ", "C", "a", "n", "t", "o", "r">>,
              editors |-> <<"F", "r", "e", "d", "e", "r", "i", "c", " ", "C", "h", "o", "p", "i", "n">>,
              date |-> <<2014, 5, 7>>, abstract |-> "N/A",
              journal |-> IVOA_Note],
      ru |-> [url |-> "http://foo/bar",
              title |-> <<"T", "e", "s", "t", " ", "d", "o", "c">>,
              journal |-> <<"B", "r", "o", "k", "e", "n", " ", "M", "e", "s", "s">>,
              abstract |-> "", authors |-> <<"X">>],
      rme |-> [url |-> "http://foo/twoeditors",
               title |-> <<"I", " ", "h", "a", "v", "e", " ", "t", "w", "o", " ", "e", "d", "i", "t", "o", "r", "s">>,
               authors |-> <<"E", "d", "i", "t", "o", "r", ",", " ", "S", ".", ";", " ", "G", "u", "y", ",", " ", "S", ".", ";", " ", "R", "i", "x", "o", "n", ",", " ", "G", ".", ";", " ", "E", "d", "i", "t", "o", "r", ",", " ", "F", "i", "r", "s", "t">>,
               editors |-> <<"E", "d", "i", "t", "o", "r", ",", " ", "F", "i", "r", "s", "t", ";", " ", "E", "d", "i", "t", "o", "r", ",", " ", "S", ".">>,
               date |-> <<2014, 3, 20>>, abstract |-> "N/A",
               journal |-> IVOA_Note] ]

\* a complete mapping with the given editors and authors literals
Mapping(editors, authors) ==
    [url |-> "http://foo/bar", title |-> <<"T">>, authors |-> authors,
     editors |-> editors, date |-> <<2014, 3, 7>>, abstract |-> "N/A",
     journal |-> IVOA_Recommendation]

\* every pair of literals as editors and authors
LiteralDocs == {Mapping(e, a) : e, a \in Literals}

Restrict(d, keys) == [k \in keys |-> d[k]]

\* r1, and a mapping whose authors hold a bare surname, with every subset of
\* the mandatory keys left out
KeyDocs ==
    {Restrict(d, DOMAIN d \ missing) :
        d \in {TEST_DATA.r1, Mapping(<<"A", " ", "B">>, <<"X">>)},
        missing \in SUBSET mandatory_keys}

\* documents with a bibcode qualifier, other dates, a surname of two words,
\* and a first author whose text before the comma is empty
FormatDocs ==
    { [url |-> "http://www.ivoa.net/documents/VOSpace/20091007/",
       title |-> <<"T">>, abstract |-> "N/A", journal |-> IVOA_Recommendation,
       date |-> <<2009, 10, 7>>,
       editors |-> <<"M", ".", " ", "G", "r", "a", "h", "a", "m">>,
       authors |-> <<"M", ".", " ", "G", "r", "a", "h", "a", "m", ",", " ", "D", ".", " ", "M", "o", "r", "r", "i", "s">>],
      [url |-> "http://www.ivoa.net/documents/latest/UCD.html",
       title |-> <<"T">>, abstract |-> "N/A", journal |-> IVOA_Note,
       date |-> <<2005, 12, 31>>,
       editors |-> <<"A", "n", "d", "r", "e", "a", " ", "P", "r", "e", "i", "t", "e", " ", "M", "a", "r", "t", "i", "n", "e", "z">>,
       authors |-> <<"A", "n", "d", "r", "e", "a", " ", "P", "r", "e", "i", "t", "e", " ", "M", "a", "r", "t", "i", "n", "e", "z", ",", " ", "S", ".", " ", "D", "e", "r", "r", "i", "e", "r", "e">>],
      [url |-> "http://foo/nosurname",
       title |-> <<"T">>, abstract |-> "N/A", journal |-> IVOA_Note,
       date |-> <<2014, 3, 7>>,
       editors |-> <<",", " ", "F", ".">>,
       authors |-> <<"A", " ", "B">>] }

DocInputs ==
    LiteralDocs \cup KeyDocs \cup FormatDocs
    \cup {TEST_DATA.r1, TEST_DATA.r2, TEST_DATA.r3, TEST_DATA.ru, TEST_DATA.rme}

--------------------------------------------------------------------------
(* SpecParse: parse_authors applied to every short literal *)

InitParse ==
    /\ pc = "parse"
    /\ literal \in StringsUpTo(MaxLen)
    /\ parsed = None
    /\ given = None /\ doc = None /\ again = None /\ bib = None
    /\ todo = None /\ next = None /\ docs = None /\ log = None /\ exc = None
    /\ single = None /\ token = None /\ mapfile = None /\ limit_to = None
    /\ pos = None /\ stdout = None /\ report = None
    /\ field = None /\ cleaned = None /\ soup = None /\ abstract = None

ParseAuthors ==
    /\ pc = "parse"
    /\ parsed' = parse_authors(literal)
    /\ pc' = "parsed"
    /\ UNCHANGED <<literal, docVars, runVars, mainVars, textVars>>

NextParse == ParseAuthors

SpecParse == InitParse /\ [][NextParse]_vars

--------------------------------------------------------------------------
(* SpecDoc: a Document is constructed; on the constructed Document the     *)
(* editor hack is run once more, or its bibcode is read                    *)

InitDoc ==
    /\ pc = "new"
    /\ given \in DocInputs
    /\ doc = None /\ again = None /\ bib = None
    /\ literal = None /\ parsed = None
    /\ todo = None /\ next = None /\ docs = None /\ log = None /\ exc = None
    /\ single = None /\ token = None /\ mapfile = None /\ limit_to = None
    /\ pos = None /\ stdout = None /\ report = None
    /\ field = None /\ cleaned = None /\ soup = None /\ abstract = None

\* doc = Document(given)
DocumentInit ==
    /\ pc = "new"
    /\ doc' = Document(given)
    /\ pc' = IF doc'.ok THEN "constructed" ELSE "raised"
    /\ UNCHANGED <<given, again, bib, parseVars, runVars, mainVars, textVars>>

\* doc._perform_editor_hack(), a second time
EditorHackAgain ==
    /\ pc = "constructed"
    /\ again' = perform_editor_hack(doc.val)
    /\ pc' = "hacked_again"
    /\ UNCHANGED <<given, doc, bib, parseVars, runVars, mainVars, textVars>>

\* doc.bibcode
ReadBibcode ==
    /\ pc = "constructed"
    /\ bib' = bibcode(doc.val)
    /\ pc' = "bibcode"
    /\ UNCHANGED <<given, doc, again, parseVars, runVars, mainVars, textVars>>

NextDoc == DocumentInit \/ EditorHackAgain \/ ReadBibcode

SpecDoc == InitDoc /\ [][NextDoc]_vars

--------------------------------------------------------------------------
(* Landing pages behind the URLs of the index in Spec *)

\* most URLs the index and published_notes.txt yield together
MaxDocs == 3

\* what parse_landing_page returns for a page that can be parsed
Landing(url, editors, authors, date, journal, title) ==
    Ok([url |-> url, editors |-> editors, authors |-> authors, date |-> date,
        journal |-> journal, tagline |-> journal, title |-> title,
        abstract |-> "N/A"])

\* The pages of the model: three Recommendations of 7 October 2009 whose
\* first authors' surnames start with B, one of them with a bibcode
\* qualifier; a Recommendation of another month; a Note; a page without
\* editors whose author is a bare surname, and the same with an editor; a
\* page whose first editor has nothing before the comma; a page that cannot
\* be retrieved; and an interrupt request while a page is retrieved.
Site ==
    { Landing("http://www.ivoa.net/documents/SAMP/20091007/",
              <<"A", " ", "B">>, <<"C", " ", "D">>, <<2009, 10, 7>>,
              IVOA_Recommendation, <<"T">>),
      Landing("http://www.ivoa.net/documents/TAP/20091007/",
              <<"C", " ", "B">>, <<"C", " ", "B">>, <<2009, 10, 7>>,
              IVOA_Recommendation, <<"S">>),
      Landing("http://www.ivoa.net/documents/VOSpace/20091007/",
              <<"A", " ", "B">>, <<"A", " ", "B">>, <<2009, 10, 7>>,
              IVOA_Recommendation, <<"T">>),
      Landing("http://www.ivoa.net/documents/SSA/20101209/",
              <<"A", " ", "B">>, <<"A", " ", "B", ",", " ", "C", " ", "D">>,
              <<2010, 12, 9>>, IVOA_Recommendation, <<"T">>),
      Landing("http://www.ivoa.net/documents/Notes/Apps/20091020/",
              <<"E", ",", " ", "F", ".">>,
              <<"E", ",", " ", "F", ".", ";", " ", "G", ",", " ", "H", ".">>,
              <<2009, 10, 20>>, IVOA_Note, <<"T">>),
      Landing("http://www.ivoa.net/documents/Notes/Bare/20091007/",
              <<" ">>, <<"X">>, <<2009, 10, 7>>, IVOA_Note, <<"T">>),
      Landing("http://www.ivoa.net/documents/Notes/Edited/20091007/",
              <<"A", " ", "B">>, <<"X">>, <<2009, 10, 7>>, IVOA_Note, <<"T">>),
      Landing("http://www.ivoa.net/documents/Notes/Comma/20091007/",
              <<",", " ", "F", ".">>, <<"A", " ", "B">>, <<2009, 10, 7>>,
              IVOA_Note, <<"T">>),
      Raise("ConnectionError", "http://www.ivoa.net/documents/Gone/20091007/"),
      Raise("KeyboardInterrupt", "http://www.ivoa.net/documents/Slow/20091007/") }

\* the URL a page is retrieved from
UrlOf(page) == IF page.ok THEN page.val["url"] ELSE page.arg

\* the lists of up to n pages with different URLs
RECURSIVE PageLists(_)
PageLists(n) ==
    IF n = 0 THEN {<<>>}
    ELSE LET shorter == PageLists(n - 1)
         IN  shorter \cup
             {l \in {Append(t, x) : t \in {u \in shorter : Len(u) = n - 1},
                                    x \in Site} :
                 \A j \in 1..(n - 1) : UrlOf(l[j]) # UrlOf(l[n])}

\* Document.from_URL(url, local_metadata) for the URL of a page
from_URL(page) == IF page.ok THEN Document(page.val) ELSE page

--------------------------------------------------------------------------
(* What main writes once the collection is there *)

\* str.lower for one character
Lower(c) == IF IsUpper(c) THEN Printable[ord(c) + 1] ELSE c

\* the URLs of the landing pages of Site, spelled out
UrlText ==
    "http://www.ivoa.net/documents/Gone/20091007/" :>
        <<"h", "t", "t", "p", ":", "/", "/", "w", "w", "w", ".", "i", "v",
          "o", "a", ".", "n", "e", "t", "/", "d", "o", "c", "u", "m", "e",
          "n", "t", "s", "/", "G", "o", "n", "e", "/", "2", "0", "0", "9",
          "1", "0", "0", "7", "/">> @@
    "http://www.ivoa.net/documents/Notes/Apps/20091020/" :>
        <<"h", "t", "t", "p", ":", "/", "/", "w", "w", "w", ".", "i", "v",
          "o", "a", ".", "n", "e", "t", "/", "d", "o", "c", "u", "m", "e",
          "n", "t", "s", "/", "N", "o", "t", "e", "s", "/", "A", "p", "p",
          "s", "/", "2", "0", "0", "9", "1", "0", "2", "0", "/">> @@
    "http://www.ivoa.net/documents/Notes/Bare/20091007/" :>
        <<"h", "t", "t", "p", ":", "/", "/", "w", "w", "w", ".", "i", "v",
          "o", "a", ".", "n", "e", "t", "/", "d", "o", "c", "u", "m", "e",
          "n", "t", "s", "/", "N", "o", "t", "e", "s", "/", "B", "a", "r",
          "e", "/", "2", "0", "0", "9", "1", "0", "0", "7", "/">> @@
    "http://www.ivoa.net/documents/Notes/Comma/20091007/" :>
        <<"h", "t", "t", "p", ":", "/", "/", "w", "w", "w", ".", "i", "v",
          "o", "a", ".", "n", "e", "t", "/", "d", "o", "c", "u", "m", "e",
          "n", "t", "s", "/", "N", "o", "t", "e", "s", "/", "C", "o", "m",
          "m", "a", "/", "2", "0", "0", "9", "1", "0", "0", "7", "/">> @@
    "http://www.ivoa.net/documents/Notes/Edited/20091007/" :>
        <<"h", "t", "t", "p", ":", "/", "/", "w", "w", "w", ".", "i", "v",
          "o", "a", ".", "n", "e", "t", "/", "d", "o", "c", "u", "m", "e",
          "n", "t", "s", "/", "N", "o", "t", "e", "s", "/", "E", "d", "i",
          "t", "e", "d", "/", "2", "0", "0", "9", "1", "0", "0", "7", "/">> @@
    "http://www.ivoa.net/documents/SAMP/20091007/" :>
        <<"h", "t", "t", "p", ":", "/", "/", "w", "w", "w", ".", "i", "v",
          "o", "a", ".", "n", "e", "t", "/", "d", "o", "c", "u", "m", "e",
          "n", "t", "s", "/", "S", "A", "M", "P", "/", "2", "0", "0", "9",
          "1", "0", "0", "7", "/">> @@
    "http://www.ivoa.net/documents/SSA/20101209/" :>
        <<"h", "t", "t", "p", ":", "/", "/", "w", "w", "w", ".", "i", "v",
          "o", "a", ".", "n", "e", "t", "/", "d", "o", "c", "u", "m", "e",
          "n", "t", "s", "/", "S", "S", "A", "/", "2", "0", "1", "0", "1",
          "2", "0", "9", "/">> @@
    "http://www.ivoa.net/documents/Slow/20091007/" :>
        <<"h", "t", "t", "p", ":", "/", "/", "w", "w", "w", ".", "i", "v",
          "o", "a", ".", "n", "e", "t", "/", "d", "o", "c", "u", "m", "e",
          "n", "t", "s", "/", "S", "l", "o", "w", "/", "2", "0", "0", "9",
          "1", "0", "0", "7", "/">> @@
    "http://www.ivoa.net/documents/TAP/20091007/" :>
        <<"h", "t", "t", "p", ":", "/", "/", "w", "w", "w", ".", "i", "v",
          "o", "a", ".", "n", "e", "t", "/", "d", "o", "c", "u", "m", "e",
          "n", "t", "s", "/", "T", "A", "P", "/", "2", "0", "0", "9", "1",
          "0", "0", "7", "/">> @@
    "http://www.ivoa.net/documents/VOSpace/20091007/" :>
        <<"h", "t", "t", "p", ":", "/", "/", "w", "w", "w", ".", "i", "v",
          "o", "a", ".", "n", "e", "t", "/", "d", "o", "c", "u", "m", "e",
          "n", "t", "s", "/", "V", "O", "S", "p", "a", "c", "e", "/", "2",
          "0", "0", "9", "1", "0", "0", "7", "/">> @@
    "http://www.ivoa.net/documents/latest/UCD.html" :>
        <<"h", "t", "t", "p", ":", "/", "/", "w", "w", "w", ".", "i", "v",
          "o", "a", ".", "n", "e", "t", "/", "d", "o", "c", "u", "m", "e",
          "n", "t", "s", "/", "l", "a", "t", "e", "s", "t", "/", "U", "C",
          "D", ".", "h", "t", "m", "l">>

\* DocumentCollection._guess_short_name(doc_uri): the loop over the parts
RECURSIVE ShortNameFrom(_, _, _)
ShortNameFrom(parts, k, after_documents) ==
    IF k > Len(parts) THEN Raise("ValueError", "Docrepo URI without 'document'")
    ELSE IF after_documents
         THEN IF parts[k] \in {<<"n", "o", "t", "e", "s">>,
                               <<"c", "o", "v", "e", "r">>}
              THEN ShortNameFrom(parts, k + 1, after_documents)
              ELSE Ok(parts[k])
    ELSE ShortNameFrom(parts, k + 1,
             parts[k] = <<"d", "o", "c", "u", "m", "e", "n", "t", "s">>)

\* DocumentCollection._guess_short_name(doc_uri)
DocumentCollection_guess_short_name(doc_uri) ==
    IF doc_uri \in DOMAIN UrlText
    THEN ShortNameFrom(
             Split([k \in 1..Len(UrlText[doc_uri]) |-> Lower(UrlText[doc_uri][k])],
                   "/"),
             1, FALSE)
    ELSE Raise("ValueError", "Docrepo URI without 'document'")

\* DocumentCollection.get_bibcode_mapping: short names to the bibcodes of
\* their documents, in the order of the collection (validate() has computed
\* the bibcode of every document before, so that none raises here)
get_bibcode_mapping(recs) ==
    IF \E k \in 1..Len(recs) : ~DocumentCollection_guess_short_name(recs[k]["url"]).ok
    THEN Raise("ValueError", "Docrepo URI without 'document'")
    ELSE Ok([name \in {DocumentCollection_guess_short_name(recs[k]["url"]).val :
                          k \in 1..Len(recs)} |->
                LET named == SelectSeq(recs,
                        LAMBDA rec :
                            DocumentCollection_guess_short_name(rec["url"]).val = name)
                IN  [k \in 1..Len(named) |-> bibcode(named[k]).val]])

\* Document.key_to_ads
key_to_ads ==
    << <<"authors", "A">>, <<"editors", "e">>, <<"title", "T">>,
       <<"source", "G">>, <<"journal", "J">>, <<"abstract", "B">> >>

\* the links of as_ADS_record
Links(d) ==
    << <<"ELECTR", d["url"]>> >>
    \o (IF "pdf" \in DOMAIN d THEN << <<"PDF", d["pdf"]>> >> ELSE <<>>)
    \o (IF "ivoadoc-id" \in DOMAIN d
        THEN << <<"EPRINT", d["ivoadoc-id"]>> >> ELSE <<>>)
    \o (IF "arXiv_id" \in DOMAIN d
        THEN << <<"ARXIV", d["arXiv_id"]>> >> ELSE <<>>)

\* the tagged fields of as_ADS_record that come from key_to_ads
RECURSIVE TaggedFields(_, _)
TaggedFields(d, k) ==
    IF k > Len(key_to_ads) THEN <<>>
    ELSE (IF key_to_ads[k][1] \in DOMAIN d
          THEN << <<key_to_ads[k][2], d[key_to_ads[k][1]]>> >> ELSE <<>>)
         \o TaggedFields(d, k + 1)

\* Document.as_ADS_record: the tagged parts, in order
as_ADS_record(d) ==
    << <<"R", bibcode(d).val>>, <<"D", <<d["date"][2], d["date"][1]>> >>,
       <<"I", Links(d)>> >> \o TaggedFields(d, 1)

--------------------------------------------------------------------------
(* Spec: DocumentCollection.from_repo_URL, that is, the loop over the URLs *)
(* and then DocumentCollection.__init__ step by step                       *)

\* main after parse_command_line: one URL with --single-doc, the index of
\* the repository without
Init ==
    /\ pc = "fetch"
    /\ single \in BOOLEAN
    /\ token \in BOOLEAN
    /\ todo \in IF single THEN {l \in PageLists(1) : Len(l) = 1}
                ELSE PageLists(MaxDocs)
    /\ next = 1
    /\ docs = <<>>
    /\ log = <<>>
    /\ exc = None
    /\ mapfile = [written |-> FALSE]
    /\ limit_to = [limited |-> FALSE]
    /\ pos = 1
    /\ stdout = <<>>
    /\ report = <<>>
    /\ field = None /\ cleaned = None /\ soup = None /\ abstract = None
    /\ literal = None /\ parsed = None
    /\ given = None /\ doc = None /\ again = None /\ bib = None

\* one turn of the loop of from_repo_URL: try ... docs.append(...)
AppendDocument ==
    /\ ~single
    /\ pc = "fetch" /\ next <= Len(todo)
    /\ from_URL(todo[next]).ok
    /\ docs' = Append(docs, from_URL(todo[next]).val)
    /\ next' = next + 1
    /\ UNCHANGED <<pc, todo, log, exc, parseVars, docVars, mainVars, textVars>>

\* one turn of the loop: except KeyboardInterrupt: raise
Interrupted ==
    /\ ~single
    /\ pc = "fetch" /\ next <= Len(todo)
    /\ ~from_URL(todo[next]).ok
    /\ from_URL(todo[next]).exc = "KeyboardInterrupt"
    /\ exc' = from_URL(todo[next])
    /\ pc' = "interrupted"
    /\ UNCHANGED <<todo, next, docs, log, parseVars, docVars, mainVars, textVars>>

\* one turn of the loop: except: write the URL and the traceback
SkipDocument ==
    /\ ~single
    /\ pc = "fetch" /\ next <= Len(todo)
    /\ ~from_URL(todo[next]).ok
    /\ from_URL(todo[next]).exc # "KeyboardInterrupt"
    /\ log' = Append(log, UrlOf(todo[next]))
    /\ next' = next + 1
    /\ UNCHANGED <<pc, todo, docs, exc, parseVars, docVars, mainVars, textVars>>

\* return cls(docs): __init__ starts with self.docs = list(docs)
CollectionInit ==
    /\ ~single
    /\ pc = "fetch" /\ next > Len(todo)
    /\ pc' = "sort"
    /\ UNCHANGED <<runVars, parseVars, docVars, mainVars, textVars>>

\* self._sort_recs()
SortRecs ==
    /\ pc = "sort"
    /\ IF sort_recs(docs).ok
       THEN docs' = sort_recs(docs).val /\ pc' = "identifiers" /\ exc' = exc
       ELSE exc' = sort_recs(docs) /\ pc' = "raised" /\ docs' = docs
    /\ UNCHANGED <<todo, next, log, parseVars, docVars, mainVars, textVars>>

\* self._create_identifiers()
CreateIdentifiers ==
    /\ pc = "identifiers"
    /\ docs' = create_identifiers(docs)
    /\ pc' = "validate"
    /\ UNCHANGED <<todo, next, log, exc, parseVars, docVars, mainVars, textVars>>

\* self.validate()
Validate ==
    /\ pc = "validate"
    /\ IF DocumentCollection_validate(docs).ok
       THEN pc' = "done" /\ exc' = exc
       ELSE pc' = "raised" /\ exc' = DocumentCollection_validate(docs)
    /\ UNCHANGED <<todo, next, docs, log, parseVars, docVars, mainVars, textVars>>

\* main: dc = DocumentCollection([Document.from_URL(args.doc_url, ...)]),
\* up to self.docs = list(docs)
SingleDocument ==
    /\ single
    /\ pc = "fetch"
    /\ IF from_URL(todo[1]).ok
       THEN /\ docs' = <<from_URL(todo[1]).val>>
            /\ next' = 2
            /\ pc' = "sort"
            /\ exc' = exc
       ELSE /\ exc' = from_URL(todo[1])
            /\ pc' = "failed"
            /\ UNCHANGED <<docs, next>>
    /\ UNCHANGED <<todo, log, parseVars, docVars, mainVars, textVars>>

\* the mapping file written before the collection has been validated
WriteMapping_before_validate ==
    /\ pc = "validate"
    /\ ~mapfile.written
    /\ \A k \in 1..Len(docs) : bibcode(docs[k]).ok
    /\ get_bibcode_mapping(docs).ok
    /\ mapfile' = [written |-> TRUE, content |-> get_bibcode_mapping(docs).val]
    /\ UNCHANGED <<pc, runVars, parseVars, docVars,
                   single, token, limit_to, pos, stdout, report, textVars>>

\* main: with open("bibcode_mapping.json", "w") as f: json.dump(...)
WriteMapping ==
    /\ pc = "done"
    /\ IF get_bibcode_mapping(docs).ok
       THEN /\ mapfile' = [written |-> TRUE,
                           content |-> get_bibcode_mapping(docs).val]
            /\ pc' = "filter"
            /\ exc' = exc
       ELSE /\ mapfile' = [written |-> TRUE, content |-> <<>>]
            /\ pc' = "failed"
            /\ exc' = get_bibcode_mapping(docs)
    /\ UNCHANGED <<todo, next, docs, log, parseVars, docVars,
                   single, token, limit_to, pos, stdout, report, textVars>>

\* main: limit_to = set(filter_unpublished_bibcodes(...)) when there is a
\* token; ADS knows some of the bibcodes, or answers with an error
FilterUnpublished ==
    /\ pc = "filter"
    /\ IF token
       THEN \/ /\ \E unpublished \in SUBSET {bibcode(docs[k]).val : k \in 1..Len(docs)} :
                      limit_to' = [limited |-> TRUE, to |-> unpublished]
               /\ pc' = "write"
               /\ exc' = exc
            \/ /\ exc' = Raise("ExternalError", "ADS API returned error")
               /\ pc' = "failed"
               /\ limit_to' = limit_to
       ELSE /\ pc' = "write"
            /\ UNCHANGED <<limit_to, exc>>
    /\ UNCHANGED <<todo, next, docs, log, parseVars, docVars,
                   single, token, mapfile, pos, stdout, report, textVars>>

\* main: one turn of for rec in dc
WriteRecord ==
    /\ pc = "write"
    /\ pos <= Len(docs)
    /\ stdout' = IF limit_to.limited /\ bibcode(docs[pos]).val \notin limit_to.to
                 THEN stdout
                 ELSE Append(stdout, as_ADS_record(docs[pos]))
    /\ pos' = pos + 1
    /\ UNCHANGED <<pc, runVars, parseVars, docVars,
                   single, token, mapfile, limit_to, report, textVars>>

\* main returns
Return ==
    /\ pc = "write"
    /\ pos > Len(docs)
    /\ pc' = "returned"
    /\ UNCHANGED <<runVars, parseVars, docVars, mainVars, textVars>>

\* the entry point: except ValidationError as msg; any other exception ends
\* the program with a traceback
EntryPoint ==
    /\ pc \in {"raised", "interrupted", "failed"}
    /\ IF exc.exc = "ValidationError"
       THEN /\ report' = <<exc.arg,
                           "Document repository invalid, not generating records.">>
            /\ pc' = "reported"
       ELSE /\ report' = report
            /\ pc' = "traceback"
    /\ UNCHANGED <<runVars, parseVars, docVars,
                   single, token, mapfile, limit_to, pos, stdout, textVars>>

Next ==
    \/ AppendDocument
    \/ Interrupted
    \/ SkipDocument
    \/ CollectionInit
    \/ SingleDocument
    \/ SortRecs
    \/ CreateIdentifiers
    \/ Validate
    \/ WriteMapping
    \/ FilterUnpublished
    \/ WriteRecord
    \/ Return
    \/ EntryPoint

Spec == Init /\ [][Next]_vars

--------------------------------------------------------------------------
(* clean_field *)

\* s holds t at position k
HasAt(s, t, k) == k + Len(t) - 1 <= Len(s) /\ SubSeq(s, k, k + Len(t) - 1) = t

\* re.sub(r"\s+", " ", s), from position k on
RECURSIVE CollapseFrom(_, _)
CollapseFrom(s, k) ==
    IF k > Len(s) THEN <<>>
    ELSE IF s[k] \in Whitespace
         THEN IF k < Len(s) /\ s[k + 1] \in Whitespace
              THEN CollapseFrom(s, k + 1)
              ELSE <<" ">> \o CollapseFrom(s, k + 1)
    ELSE <<s[k]>> \o CollapseFrom(s, k + 1)

\* re.sub(",? and ", ", ", s), from position k on: the leftmost match, with
\* the comma when there is one, then on behind the match
RECURSIVE CommasFrom(_, _)
CommasFrom(s, k) ==
    IF k > Len(s) THEN <<>>
    ELSE IF HasAt(s, <<",", " ", "a", "n", "d", " ">>, k)
         THEN <<",", " ">> \o CommasFrom(s, k + 6)
    ELSE IF HasAt(s, <<" ", "a", "n", "d", " ">>, k)
         THEN <<",", " ">> \o CommasFrom(s, k + 5)
    ELSE <<s[k]>> \o CommasFrom(s, k + 1)

\* s.replace(old, new), from position k on
RECURSIVE ReplaceFrom(_, _, _, _)
ReplaceFrom(s, old, new, k) ==
    IF k > Len(s) THEN <<>>
    ELSE IF HasAt(s, old, k)
         THEN new \o ReplaceFrom(s, old, new, k + Len(old))
    ELSE <<s[k]>> \o ReplaceFrom(s, old, new, k + 1)

clean_field(s) ==
    ReplaceFrom(CommasFrom(CollapseFrom(s, 1), 1),
                <<"G", "r", "i", "d", ",", " ">>,
                <<"G", "r", "i", "d", " ", "a", "n", "d">>, 1)

\* most pieces a field of SpecClean is put together from
MaxPieces == 3

\* what the fields are put together from
Pieces ==
    { <<"G", "r", "i", "d">>,
      <<" ", "a", "n", "d", " ">>,
      <<",", " ", "a", "n", "d", " ">>,
      <<"W", "e", "b", " ", "S", "e", "r", "v", "i", "c", "e", "s">>,
      <<" ">>,
      <<"\n">>,
      <<"A">>,
      <<",">> }

RECURSIVE FieldsUpTo(_)
FieldsUpTo(n) ==
    IF n = 0 THEN {<<>>}
    ELSE FieldsUpTo(n - 1) \cup {f \o x : f \in FieldsUpTo(n - 1), x \in Pieces}

InitClean ==
    /\ pc = "clean"
    /\ field \in FieldsUpTo(MaxPieces)
    /\ cleaned = None
    /\ soup = None /\ abstract = None
    /\ literal = None /\ parsed = None
    /\ given = None /\ doc = None /\ again = None /\ bib = None
    /\ todo = None /\ next = None /\ docs = None /\ log = None /\ exc = None
    /\ single = None /\ token = None /\ mapfile = None /\ limit_to = None
    /\ pos = None /\ stdout = None /\ report = None

CleanField ==
    /\ pc = "clean"
    /\ cleaned' = clean_field(field)
    /\ pc' = "cleaned"
    /\ UNCHANGED <<field, soup, abstract, parseVars, docVars, runVars, mainVars>>

NextClean == CleanField

SpecClean == InitClean /\ [][NextClean]_vars

--------------------------------------------------------------------------
(* format_abstract and get_abstract_text *)

\* a NavigableString
Text(s) == [name |-> "#text", string |-> s, children |-> <<>>]

\* a Tag with its children
Tag(name, children) == [name |-> name, string |-> <<>>, children |-> children]

RECURSIVE format_abstract(_)
RECURSIVE FormatItems(_, _, _)
RECURSIVE FormatChildren(_, _, _)

\* format_abstract for ul and ol: the loop over the li children, from item k
\* on; a Finished of an item leaves the loop as it is
FormatItems(items, k, accum) ==
    IF k > Len(items) THEN Ok(Join(<<" ">>, accum))
    ELSE LET item == format_abstract(items[k])
         IN  IF item.ok
             THEN FormatItems(items, k + 1,
                      Append(accum, <<" ", "(">> \o Decimal(k) \o <<")", " ">>
                                    \o item.val \o <<" ">>))
             ELSE item

\* format_abstract for any other element: the loop over the children, from
\* child k on; a Finished of a child is raised again with what was collected
FormatChildren(children, k, accum) ==
    IF k > Len(children) THEN Ok(Join(<<" ">>, accum))
    ELSE LET child == format_abstract(children[k])
         IN  IF child.ok
             THEN FormatChildren(children, k + 1, Append(accum, child.val))
             ELSE Raise("Finished", Join(<<" ">>, Append(accum, child.arg)))

format_abstract(el) ==
    IF el.name = "#text" THEN Ok(Join(<<" ">>, <<el.string>>))
    ELSE IF el.name = "div" THEN Raise("Finished", Join(<<" ">>, <<>>))
    ELSE IF el.name \in {"ul", "ol"}
         THEN FormatItems(SelectSeq(el.children, LAMBDA c : c.name = "li"),
                          1, <<>>)
    ELSE FormatChildren(el.children, 1,
             IF el.name = "p" THEN << <<"\n", "\n">> >> ELSE <<>>)

\* get_abstract_text: the loop over the siblings after the heading, from
\* sibling k on; behind the last sibling el is None, which has no name
RECURSIVE AbstractFrom(_, _, _)
AbstractFrom(siblings, k, accum) ==
    IF k > Len(siblings) THEN Raise("AttributeError", "name")
    ELSE IF siblings[k].name = "div" THEN Ok(Join(<<" ">>, accum))
    ELSE LET text == format_abstract(siblings[k])
         IN  IF text.ok
             THEN AbstractFrom(siblings, k + 1, Append(accum, text.val))
             ELSE Ok(Join(<<" ">>, Append(accum, text.arg)))

get_abstract_text(siblings) == AbstractFrom(siblings, 1, <<>>)

\* most elements and strings after the Abstract heading in SpecAbstract
MaxNodes == 5

\* a div, with some text in it
Div == Tag("div", <<Text(<<"d">>)>>)

RECURSIVE Elements(_)
RECURSIVE Siblings(_)
RECURSIVE Items(_)

\* the strings and elements of n nodes: a string, a div, a p or a ul
Elements(n) ==
    (IF n = 1 THEN {Text(<<"a">>), Text(<<"b">>), Div} ELSE {})
    \cup {Tag("p", children) : children \in Siblings(n - 1)}
    \cup {Tag("ul", items) : items \in Items(n - 1)}

\* the lists of strings and elements of n nodes in all
Siblings(n) ==
    IF n = 0 THEN {<<>>}
    ELSE UNION {{<<el>> \o rest : el \in Elements(k), rest \in Siblings(n - k)} :
                   k \in 1..n}

\* the lists of li elements of n nodes in all
Items(n) ==
    IF n = 0 THEN {<<>>}
    ELSE UNION {{<<Tag("li", children)>> \o rest :
                    children \in Siblings(k - 1), rest \in Items(n - k)} :
                   k \in 1..n}

InitAbstract ==
    /\ pc = "abstract"
    /\ soup \in UNION {Siblings(n) : n \in 0..MaxNodes}
    /\ abstract = None
    /\ field = None /\ cleaned = None
    /\ literal = None /\ parsed = None
    /\ given = None /\ doc = None /\ again = None /\ bib = None
    /\ todo = None /\ next = None /\ docs = None /\ log = None /\ exc = None
    /\ single = None /\ token = None /\ mapfile = None /\ limit_to = None
    /\ pos = None /\ stdout = None /\ report = None

GetAbstractText ==
    /\ pc = "abstract"
    /\ abstract' = get_abstract_text(soup)
    /\ pc' = "collected"
    /\ UNCHANGED <<soup, field, cleaned, parseVars, docVars, runVars, mainVars>>

NextAbstract == GetAbstractText

SpecAbstract == InitAbstract /\ [][NextAbstract]_vars

--------------------------------------------------------------------------
(* C5 *)

\* the literal's last two characters are a capital letter and a period
EndsCapitalPeriod(s) ==
    Len(s) >= 2 /\ s[Len(s)] = "." /\ s[Len(s) - 1] \in
        {"A", "B", "C", "D", "E", "F", "G", "H", "I", "J", "K", "L", "M",
         "N", "O", "P", "Q", "R", "S", "T", "U", "V", "W", "X", "Y", "Z"}

\* what the claim says of a literal that is split on the character sep:
\* the trimmed tokens are returned in order when each holds a blank, and
\* otherwise an error names a token without a blank and no list is returned
SplitsOn(s, sep, result) ==
    LET tokens == StripAll(Split(s, sep))
        unlikely == {k \in 1..Len(tokens) : ~Contains(tokens[k], " ")}
    IN  IF unlikely = {}
        THEN result = Ok(tokens)
        ELSE /\ ~result.ok
             /\ \E k \in unlikely : result.arg = tokens[k]

--------------------------------------------------------------------------
(* C7 *)

\* the mandatory keys in alphabetical order
AlphabeticalKeys ==
    <<"abstract", "authors", "date", "editors", "journal", "title", "url">>

\* C7: constructing a Document from a mapping that lacks mandatory keys
\* fails with a ValidationError that lists exactly the missing keys in
\* alphabetical order and names the url, or "<unknown origin>" when the url
\* is missing, whatever the editors and authors are (the validation comes before
\* the editor reordering); a mapping with all mandatory keys passes the validation.
C7_MissingKeys ==
    pc # "new" =>
        LET missing == mandatory_keys \ DOMAIN given
        IN  IF missing # {}
            THEN doc = Raise("ValidationError",
                     [origin |-> IF "url" \in DOMAIN given THEN given["url"]
                                 ELSE "<unknown origin>",
                      missing |-> SelectSeq(AlphabeticalKeys,
                                            LAMBDA k : k \in missing)])
            ELSE doc.ok \/ doc.exc # "ValidationError"

\* the doctest Document(TEST_DATA["ru"]): Missing key(s) date, editors
C7_Witness ==
    /\ pc = "raised"
    /\ given = TEST_DATA.ru
    /\ doc.exc = "ValidationError"
    /\ doc.arg = [origin |-> "http://foo/bar", missing |-> <<"date", "editors">>]

--------------------------------------------------------------------------
(* C3 *)

\* C3 as stated: with a non-blank editors field the authors of the
\* constructed Document are the parsed editors followed by the parsed authors
\* that are no editors, for every editors/authors pair; with a blank editors
\* field the authors are unchanged.
C3_EditorsFirst ==
    pc = "constructed" =>
        IF Strip(given["editors"]) = <<>>
        THEN doc.val["authors"] = given["authors"]
        ELSE LET eds == parse_authors(given["editors"]).val
                 auths == parse_authors(given["authors"]).val
                 others == SelectSeq(auths,
                               LAMBDA a : \A k \in 1..Len(eds) : eds[k] # a)
             IN  doc.val["authors"] = Unparse(eds \o others)

--------------------------------------------------------------------------
(* C4 *)

\* names "First Last" separated by commas: no semicolon, and every name
\* holds a blank
FirstLastFormat(s) ==
    /\ ~Contains(s, ";")
    /\ \A k \in 1..Len(Split(s, ",")) :
           Contains(Strip(Split(s, ",")[k]), " ")

\* names "Last, F." separated by semicolons: every name holds a comma and
\* ends with a period
LastInitialFormat(s) ==
    \A k \in 1..Len(Split(s, ";")) :
        LET name == Strip(Split(s, ";")[k])
        IN  /\ name # <<>>
            /\ Contains(name, ",")
            /\ name[Len(name)] = "."

ClaimedFormat(s) == FirstLastFormat(s) \/ LastInitialFormat(s)

\* C4 as stated: when the editors and the authors handed to the constructor
\* are each written in one of the two name formats, a second run of the
\* editor hack on the constructed Document succeeds and leaves the authors
\* string as the first run made it.
C4_Idempotent ==
    /\ pc = "hacked_again"
    /\ ClaimedFormat(given["editors"])
    /\ ClaimedFormat(given["authors"])
    => /\ again.ok
       /\ again.val["authors"] = doc.val["authors"]

--------------------------------------------------------------------------
(* C6 *)

\* C6 as stated: no Document is constructed from a mapping whose authors
\* literal parses to a token without a space, whatever the editors field is,
\* and on every constructed Document the bibcode is computed without raising.
C6_UnlikelyAuthorsRejected ==
    /\ pc = "constructed" => parse_authors(given["authors"]).ok
    /\ pc = "bibcode" => bib.ok

--------------------------------------------------------------------------
(* C2 *)

DigitText(n) == <<"0", "1", "2", "3", "4", "5", "6", "7", "8", "9">>[n + 1]

TwoDigits(n) == <<DigitText(n \div 10), DigitText(n % 10)>>

\* the year as it is written (the years of the model have four digits)
YearText(y) == TwoDigits(y \div 100) \o TwoDigits(y % 100)

\* the text before the first comma of a name that holds one
BeforeComma(name) ==
    LET k == CHOOSE i \in 1..Len(name) :
                 name[i] = "," /\ \A j \in 1..(i - 1) : name[j] # ","
    IN  SubSeq(name, 1, k - 1)

\* the last whitespace-separated word of a trimmed name
LastWord(name) ==
    LET blanks == {i \in 1..Len(name) : name[i] \in Whitespace}
        k == IF blanks = {} THEN 0
             ELSE CHOOSE i \in blanks : \A j \in blanks : j <= i
    IN  SubSeq(name, k + 1, Len(name))

\* the surname the claim gives the first author
ClaimedSurname(name) ==
    IF Contains(name, ",") THEN BeforeComma(name)
    ELSE IF \E e \in exceptional_surnames : IsSubstring(e, name)
         THEN CHOOSE e \in exceptional_surnames : IsSubstring(e, name)
    ELSE LastWord(name)

\* the bibcode the claim gives a constructed Document d
ClaimedBibcode(d) ==
    LET first == parse_authors(d["authors"]).val[1]
    IN  YearText(d["date"][1]) \o <<"i", "v", "o", "a", ".">> \o d["type"]
        \o <<IF d["url"] \in DOMAIN BIBCODE_QUALIFIERS
             THEN BIBCODE_QUALIFIERS[d["url"]] ELSE ".">>
        \o TwoDigits(d["date"][2]) \o TwoDigits(d["date"][3])
        \o <<ClaimedSurname(first)[1]>>

\* C2 as stated: for every constructed Document the bibcode is the year,
\* "ivoa.", the type (spec or rept), the qualifier of the url or ".", the
\* two-digit month, the two-digit day and the first character of the first
\* author's surname.
C2_Bibcode ==
    pc = "bibcode" =>
        /\ doc.val["type"] \in {spec, rept}
        /\ bib.ok
        /\ bib.val = ClaimedBibcode(doc.val)

--------------------------------------------------------------------------
(* C8 and C9 *)

\* the ivoadoc-id with the given count, written out digit by digit
IdentifierText(rec, count) ==
    <<"i", "v", "o", "a", ":", IF rec["type"] = spec THEN "r" ELSE "n", ".">>
    \o YearText(rec["date"][1]) \o <<".">> \o TwoDigits(rec["date"][2])
    \o <<".">> \o TwoDigits(count)

\* the documents before docs[k] that have its type
EarlierOfType(k) == {j \in 1..(k - 1) : docs[j]["type"] = docs[k]["type"]}

\* those of them that were published in its year and month
EarlierOfTypeAndMonth(k) ==
    {j \in EarlierOfType(k) :
        /\ docs[j]["date"][1] = docs[k]["date"][1]
        /\ docs[j]["date"][2] = docs[k]["date"][2]}

C9_CountPerMonth ==
    pc = "done" =>
        \A k \in 1..Len(docs) :
            docs[k]["ivoadoc-id"] =
                IdentifierText(docs[k], Cardinality(EarlierOfTypeAndMonth(k)))

--------------------------------------------------------------------------
(* C1 *)

\* the documents of the collection whose bibcode another document has too
Clashing ==
    {k \in 1..Len(docs) :
        /\ bibcode(docs[k]).ok
        /\ \E j \in 1..Len(docs) : j # k /\ bibcode(docs[j]) = bibcode(docs[k])}

\* the URLs a clash message names
NamedUrls(message) ==
    UNION {{message.clashing[g][m] : m \in 1..Len(message.clashing[g])} :
               g \in 1..Len(message.clashing)}

\* year, type, month, day and surname initial of a document are those of
\* another one
SameButQualifier(a, b) ==
    /\ a["date"] = b["date"]
    /\ a["type"] = b["type"]
    /\ get_first_author_surname(a).val[1] = get_first_author_surname(b).val[1]

\* C1 as stated: in a constructed collection no two documents have the same
\* bibcode, and documents that agree in all but the qualifier have different
\* qualifiers; whenever two documents handed to the constructor have the
\* same bibcode, the construction fails with a ValidationError that names the
\* URLs of all of them.
C1_NoClashingBibcodes ==
    /\ pc = "done" =>
           \A j, k \in 1..Len(docs) : j # k =>
               /\ bibcode(docs[j]) # bibcode(docs[k])
               /\ SameButQualifier(docs[j], docs[k]) =>
                      Get(BIBCODE_QUALIFIERS, docs[j]["url"], ".")
                          # Get(BIBCODE_QUALIFIERS, docs[k]["url"], ".")
    /\ pc \in {"done", "raised"} /\ Clashing # {} =>
           /\ pc = "raised"
           /\ exc.exc = "ValidationError"
           /\ \A k \in Clashing : docs[k]["url"] \in NamedUrls(exc.arg)

--------------------------------------------------------------------------
(* C10 *)

\* the pages of the index whose document could not be made
Failed == SelectSeq(todo, LAMBDA page : ~from_URL(page).ok)

\* C10 as stated: a failure that concerns a single document never ends the
\* run: it is logged, that document is left out, every later URL is still
\* processed and the collection is built from the other documents; only an
\* interrupt request ends the loop at once.  So a run ends with an exception
\* only for an interrupt request or for clashing bibcodes.
C10_FailuresAreSkipped ==
    ~single =>
    /\ pc = "interrupted" =>
           /\ todo[next] = Raise("KeyboardInterrupt", UrlOf(todo[next]))
           /\ exc.exc = "KeyboardInterrupt"
    /\ pc \in {"sort", "identifiers", "validate", "done", "raised"} =>
           /\ next = Len(todo) + 1
           /\ log = [k \in 1..Len(Failed) |-> UrlOf(Failed[k])]
           /\ Len(docs) + Len(log) = Len(todo)
           /\ \A k \in 1..Len(todo) :
                  from_URL(todo[k]).ok =>
                      \E j \in 1..Len(docs) : docs[j]["url"] = UrlOf(todo[k])
    /\ pc = "raised" =>
           /\ exc.exc = "ValidationError"
           /\ Clashing # {}

--------------------------------------------------------------------------
(* C11 *)

\* something has been output: the mapping file or a record
OutputStarted == mapfile.written \/ stdout # <<>>

\* C11: a ValidationError that ends main is reported by the entry point
\* together with "Document repository invalid, not generating records.", and
\* in such a run nothing has been output: no record is on standard output and
\* the mapping file has not been written; output starts only when the
\* collection has been constructed, given identifiers and validated.
C11_NoOutputWhenInvalid ==
    /\ pc \in {"raised", "interrupted", "failed"} /\ exc.exc = "ValidationError"
           => ~OutputStarted
    /\ pc = "reported" =>
           /\ exc.exc = "ValidationError"
           /\ report = <<exc.arg,
                         "Document repository invalid, not generating records.">>
           /\ ~OutputStarted
    /\ pc = "traceback" => exc.exc # "ValidationError" /\ report = <<>>
    /\ OutputStarted => pc \in {"filter", "write", "returned", "failed", "traceback"}
    /\ pc = "filter" =>
           /\ DocumentCollection_validate(docs).ok
           /\ \A k \in 1..Len(docs) : "ivoadoc-id" \in DOMAIN docs[k]

\* a run over the index in which two documents had the same bibcode has been
\* reported by the entry point, and nothing was output
C11_Witness ==
    /\ pc = "reported"
    /\ ~single
    /\ Len(docs) >= 2
    /\ Len(report) = 2
    /\ Len(report[1].clashing) = 1
    /\ stdout = <<>>
    /\ ~mapfile.written

--------------------------------------------------------------------------
(* C12 *)

\* the documents handed to the constructor, in input order
InputDocuments ==
    LET made == SelectSeq(todo, LAMBDA page : from_URL(page).ok)
    IN  [k \in 1..Len(made) |-> from_URL(made[k]).val]

\* the position of the input document with the url of rec
InputPosition(rec) ==
    CHOOSE k \in 1..Len(InputDocuments) : InputDocuments[k]["url"] = rec["url"]

\* a document as it was handed in, that is, without its identifier
WithoutIdentifier(rec) == [k \in DOMAIN rec \ {"ivoadoc-id"} |-> rec[k]]

\* neither key is less than the other
SameKey(a, b) ==
    /\ ~KeyLess(SortKey(a), SortKey(b))
    /\ ~KeyLess(SortKey(b), SortKey(a))

\* C12: once the collection is sorted, and through identifier assignment,
\* validation, get_bibcode_mapping and the iteration of main, docs holds
\* every input document exactly once, in ascending order of (date, first
\* author's surname, title), documents with equal keys in input order.
C12_SortedOnce ==
    pc \in {"identifiers", "validate", "done", "filter", "write", "returned"} =>
        LET input == InputDocuments
            place == [k \in 1..Len(docs) |->
                         CHOOSE i \in 1..Len(input) :
                             input[i] = WithoutIdentifier(docs[k])]
            key == [k \in 1..Len(docs) |-> SortKey(docs[k])]
        IN  /\ Len(docs) = Len(input)
            /\ \A i \in 1..Len(input) :
                   \E k \in 1..Len(docs) : WithoutIdentifier(docs[k]) = input[i]
            /\ \A j, k \in 1..Len(docs) :
                   j < k =>
                       /\ ~KeyLess(key[k], key[j])
                       /\ ~KeyLess(key[j], key[k]) => place[j] < place[k]

\* main has returned for a collection whose documents were handed in in
\* another order than the sorted one, two of them with equal keys
C12_Witness ==
    /\ pc = "returned"
    /\ \E k \in 1..Len(docs) : InputPosition(docs[k]) # k
    /\ \E j, k \in 1..Len(docs) : j < k /\ SameKey(docs[j], docs[k])

--------------------------------------------------------------------------
(* C13 *)

GridAndWebServices ==
    <<"G", "r", "i", "d", " ", "a", "n", "d", " ", "W", "e", "b", " ", "S", "e", "r", "v", "i", "c", "e", "s">>

\* no whitespace but single blanks
WhitespaceCollapsed(s) ==
    \A k \in 1..Len(s) :
        s[k] \in Whitespace =>
            /\ s[k] = " "
            /\ k < Len(s) => s[k + 1] \notin Whitespace

\* C13 as stated: clean_field leaves no whitespace but single blanks, and
\* every field that holds "Grid and Web Services" is cleaned to a string that
\* holds "Grid and Web Services", character for character.
C13_GridAndWebServices ==
    pc = "cleaned" =>
        /\ WhitespaceCollapsed(cleaned)
        /\ IsSubstring(GridAndWebServices, field) =>
               IsSubstring(GridAndWebServices, cleaned)

--------------------------------------------------------------------------
(* C14 *)

RECURSIVE WordsBefore(_)
RECURSIVE ItemWordsBefore(_, _, _)
RECURSIVE ChildWordsBefore(_, _, _)

\* the words of the list items from item k on that come before the first
\* div, every item that ends before it with its number (n) in front
ItemWordsBefore(items, k, words) ==
    IF k > Len(items) THEN [words |-> words, stopped |-> FALSE]
    ELSE LET item == WordsBefore(items[k])
         IN  IF item.stopped
             THEN [words |-> words \o item.words, stopped |-> TRUE]
             ELSE ItemWordsBefore(items, k + 1,
                      words \o << <<"(">> \o Decimal(k) \o <<")">> >>
                            \o item.words)

\* the words of the children from child k on that come before the first div
ChildWordsBefore(children, k, words) ==
    IF k > Len(children) THEN [words |-> words, stopped |-> FALSE]
    ELSE LET child == WordsBefore(children[k])
         IN  IF child.stopped
             THEN [words |-> words \o child.words, stopped |-> TRUE]
             ELSE ChildWordsBefore(children, k + 1, words \o child.words)

\* the words of el, in document order, that come before its first div, and
\* whether there is a div
WordsBefore(el) ==
    IF el.name = "#text" THEN [words |-> Words(el.string), stopped |-> FALSE]
    ELSE IF el.name = "div" THEN [words |-> <<>>, stopped |-> TRUE]
    ELSE IF el.name \in {"ul", "ol"}
         THEN ItemWordsBefore(SelectSeq(el.children, LAMBDA c : c.name = "li"),
                              1, <<>>)
    ELSE ChildWordsBefore(el.children, 1, <<>>)

\* C14 as stated: when there is a div after the Abstract heading, as a
\* sibling or nested at any depth, the abstract is returned and its words are
\* the words before the first div in document order, the items of lists
\* that end before the div with their numbers (n), and nothing else.
C14_StopsAtDiv ==
    pc = "collected" /\ ChildWordsBefore(soup, 1, <<>>).stopped =>
        /\ abstract.ok
        /\ Words(abstract.val) = ChildWordsBefore(soup, 1, <<>>).words

==========================================================================
